---- MODULE Spec2Model ----
(***************************************************************************)
(* recomp: a React component / context / hook generator CLI                *)
(* (bin/recomp.js).                                                        *)
(*                                                                         *)
(* A JavaScript string is a sequence of tokens: a token is one character   *)
(* ("a", "-", "/") or a fixed literal fragment of a template or message.   *)
(* String concatenation is \o.  A path is a sequence of segments, each     *)
(* segment a string.  The filesystem is the set of directories plus a      *)
(* function from file paths to contents.                                   *)
(***************************************************************************)
EXTENDS Integers, Sequences, FiniteSets, TLC

VARIABLES
    dirs,       \* filesystem: the set of existing directory paths
    files,      \* filesystem: file path -> content
    pc,         \* position of the current process
    argv,       \* process.argv.slice(2) of the current process
    kind,       \* generator entered by the current process
    opts,       \* options object built by main
    plan,       \* names and paths derived by the generator
    out,        \* console output of the current process, in order
    fsops,      \* filesystem calls of the current process, in order
    exitCode,   \* exit code of the current process (-1 while running)
    runs,       \* number of processes started so far
    faults,     \* number of filesystem calls that threw so far
    raw,        \* name layer: the input string
    res         \* name layer: results computed from raw

vars == <<dirs, files, pc, argv, kind, opts, plan, out, fsops, exitCode,
          runs, faults, raw, res>>

genVars == <<dirs, files, pc, argv, kind, opts, plan, out, fsops, exitCode,
             runs, faults>>

nameVars == <<raw, res>>

-----------------------------------------------------------------------------
(* Bounds *)

MaxRawLen == 3      \* longest enumerated string of the name layer
MaxRuns == 2        \* processes started in one behaviour
MaxFaults == 1      \* filesystem calls that throw in one behaviour

-----------------------------------------------------------------------------
(* Strings *)

Undefined == <<"<undefined>">>

Hyphen == "-"

LowerChars == <<"a", "b", "e", "f", "g", "l", "o", "r", "s", "t", "u">>

UpperChars == <<"A", "B", "E", "F", "G", "L", "O", "R", "S", "T", "U">>

\* the upper-case form of one character
upperChar(c) ==
    IF \E i \in DOMAIN LowerChars : LowerChars[i] = c
    THEN UpperChars[CHOOSE i \in DOMAIN LowerChars : LowerChars[i] = c]
    ELSE c

\* String.prototype.toUpperCase
toUpperCase(str) == [i \in DOMAIN str |-> upperChar(str[i])]

\* word.charAt(0): the empty string when word is empty
charAt0(word) == IF word = <<>> THEN <<>> ELSE <<word[1]>>

\* word.slice(1)
slice1(word) == IF word = <<>> THEN <<>> ELSE Tail(word)

\* str.startsWith(prefix)
startsWith(str, prefix) ==
    /\ Len(str) >= Len(prefix)
    /\ SubSeq(str, 1, Len(prefix)) = prefix

\* str.substring(n)
substring(str, n) == SubSeq(str, n + 1, Len(str))

\* str.split(sep): the pieces between the occurrences of the character sep
RECURSIVE splitAcc(_, _, _)
splitAcc(str, sep, cur) ==
    IF str = <<>> THEN <<cur>>
    ELSE IF Head(str) = sep
         THEN <<cur>> \o splitAcc(Tail(str), sep, <<>>)
         ELSE splitAcc(Tail(str), sep, Append(cur, Head(str)))

split(str, sep) == splitAcc(str, sep, <<>>)

\* words.join('')
RECURSIVE joinEmpty(_)
joinEmpty(words) ==
    IF words = <<>> THEN <<>> ELSE Head(words) \o joinEmpty(Tail(words))

\* the callback of map in kebabToPascalCase
capitalize(word) == toUpperCase(charAt0(word)) \o slice1(word)

\* a plausible slip: the words are joined with the separator kept
kebabToPascalCase_keepsHyphen(str) ==
    IF str = <<>> \/ str = Undefined THEN <<>>
    ELSE LET words == split(str, Hyphen) IN
         LET caps == [i \in DOMAIN words |->
                        IF i = 1 THEN capitalize(words[i])
                        ELSE <<Hyphen>> \o capitalize(words[i])] IN
         joinEmpty(caps)

kebabToPascalCase(str) ==
    IF str = <<>> \/ str = Undefined THEN <<>>
    ELSE LET words == split(str, Hyphen) IN
         joinEmpty([i \in DOMAIN words |-> capitalize(words[i])])

-----------------------------------------------------------------------------
(* Paths *)

Slash == "/"

RECURSIVE normalizeSegs(_)
normalizeSegs(segs) ==
    IF segs = <<>> THEN <<>>
    ELSE IF Head(segs) = <<>> \/ Head(segs) = <<".">>
         THEN normalizeSegs(Tail(segs))
         ELSE <<Head(segs)>> \o normalizeSegs(Tail(segs))

\* path.join(p, str) for an already normalized p: the segments of str are
\* appended, empty and "." segments dropped (so joining '' leaves p as it is)
pathJoin(p, str) == p \o normalizeSegs(split(str, Slash))

DefaultComponentsDir == <<".", "/", "src", "/", "components">>

DefaultContextsDir == <<".", "/", "src", "/", "contexts">>

DefaultHooksDir == <<".", "/", "src", "/", "hooks">>

\* the default parameter value srcDir = '...' of each generator
defaultDir(k) ==
    CASE k = "component" -> DefaultComponentsDir
      [] k = "context" -> DefaultContextsDir
      [] OTHER -> DefaultHooksDir

\* the proper non-empty prefixes of p and p itself
ancestorsAndSelf(p) == {SubSeq(p, 1, n) : n \in 1..Len(p)}

-----------------------------------------------------------------------------
(* Names and paths derived by the generators *)

IndexFileName == <<"index.ts">>

NoPlan == [name |-> <<>>, dirName |-> <<>>, dir |-> <<>>, fileBase |-> <<>>,
           mainExt |-> <<>>]

componentPlan(kebabName, srcDir) ==
    LET componentName == kebabToPascalCase(kebabName) IN
    [name |-> componentName,
     dirName |-> componentName,
     dir |-> pathJoin(pathJoin(<<>>, srcDir), componentName),
     fileBase |-> componentName,
     mainExt |-> <<".tsx">>]

contextPlan(kebabName, srcDir) ==
    LET contextBaseName == kebabToPascalCase(kebabName) IN
    LET contextDirName == contextBaseName \o <<"Context">> IN
    [name |-> contextBaseName,
     dirName |-> contextDirName,
     dir |-> pathJoin(pathJoin(<<>>, srcDir), contextDirName),
     fileBase |-> contextDirName,
     mainExt |-> <<".tsx">>]

UsePrefix == <<"u", "s", "e", "-">>

Use == <<"u", "s", "e">>

\* a plausible slip: the prefix is never stripped
stripUse_never(kebabName) == kebabName

\* baseKebabName of generateHook
stripUse(kebabName) ==
    IF startsWith(kebabName, UsePrefix) THEN substring(kebabName, 4)
    ELSE kebabName

\* hookDirName of generateHook
hookDirName(basePascalName) == basePascalName

hookPlan(kebabName, srcDir) ==
    LET basePascalName == kebabToPascalCase(stripUse(kebabName)) IN
    LET hookName == Use \o basePascalName IN
    [name |-> hookName,
     dirName |-> hookDirName(basePascalName),
     dir |-> pathJoin(pathJoin(<<>>, srcDir), hookDirName(basePascalName)),
     fileBase |-> hookName,
     mainExt |-> <<".ts">>]

planOf(k, kebabName, srcDir) ==
    CASE k = "component" -> componentPlan(kebabName, srcDir)
      [] k = "context" -> contextPlan(kebabName, srcDir)
      [] OTHER -> hookPlan(kebabName, srcDir)

indexFile(pl) == pathJoin(pl.dir, IndexFileName)

cssFile(pl) == pathJoin(pl.dir, pl.fileBase \o <<".module.css">>)

typesFile(pl) == pathJoin(pl.dir, pl.fileBase \o <<".types", ".ts">>)

mainFile(pl) == pathJoin(pl.dir, pl.fileBase \o pl.mainExt)

-----------------------------------------------------------------------------
(* File contents: the template literals of the three generators *)

componentIndexContent(pl, o) ==
    <<"export { default } from './">> \o pl.name \o <<"';\n">>
    \o (IF o.createCss
        THEN <<"export { default as ">> \o pl.name
             \o <<"Styles } from './">> \o pl.name \o <<".module.css", "';\n">>
        ELSE <<>>)
    \o (IF o.createTypes
        THEN <<"export * from './">> \o pl.name \o <<".types", "';\n">>
        ELSE <<>>)

contextIndexContent(pl, o) ==
    <<"export * from './">> \o pl.dirName \o <<"';\n">>
    \o (IF o.createTypes
        THEN <<"export * from './">> \o pl.dirName \o <<".types", "';\n">>
        ELSE <<>>)

hookIndexContent(pl, o) ==
    <<"export * from './">> \o pl.name \o <<"';\n">>
    \o (IF o.createTypes
        THEN <<"export * from './">> \o pl.name \o <<".types", "';\n">>
        ELSE <<>>)

\* a plausible slip: the types re-export is emitted whatever createTypes says
indexContent_alwaysTypes(k, pl, o) ==
    <<"export * from './">> \o pl.fileBase \o <<"';\n">>
    \o <<"export * from './">> \o pl.fileBase \o <<".types", "';\n">>

indexContent(k, pl, o) ==
    CASE k = "component" -> componentIndexContent(pl, o)
      [] k = "context" -> contextIndexContent(pl, o)
      [] OTHER -> hookIndexContent(pl, o)

cssContent == <<".root {\n  /* Add your styles here */\n}\n">>

componentTypesContent(pl) ==
    <<"export interface ">> \o pl.name
    \o <<"Props {\n  // Define your component's props here\n}\n">>

contextTypesContent(pl) ==
    <<"// The main data structure for the context's state\nexport interface ">>
    \o pl.name \o <<"State {\n  // TODO: Define your state properties here\n}\n\n">>
    \o <<"// The complete context value, including state and actions\nexport interface ">>
    \o pl.name \o <<"ContextType extends ">> \o pl.name
    \o <<"State {\n  // TODO: Define your context actions here\n}\n">>

hookTypesContent(pl) ==
    <<"// Define argument and return types for your hook\nexport interface ">>
    \o pl.name \o <<"Options {\n  // ...\n}\n\nexport type ">>
    \o pl.name \o <<"Return = void;\n">>

typesContent(k, pl) ==
    CASE k = "component" -> componentTypesContent(pl)
      [] k = "context" -> contextTypesContent(pl)
      [] OTHER -> hookTypesContent(pl)

componentMainContent(pl, o) ==
    LET cssImport == IF o.createCss
                     THEN <<"import styles from './">> \o pl.name
                          \o <<".module.css", "';\n">>
                     ELSE <<>>
        typesImport == IF o.createTypes
                       THEN <<"import type { ">> \o pl.name \o <<"Props } from './">>
                            \o pl.name \o <<".types", "';\n">>
                       ELSE <<>>
        propsUsage == IF o.createTypes THEN <<"props: ">> \o pl.name \o <<"Props">>
                      ELSE <<>>
        classNameAttr == IF o.createCss THEN <<"className={styles.root}">> ELSE <<>>
    IN  <<"import React from 'react';\n">> \o cssImport \o typesImport
        \o <<"\nconst ">> \o pl.name \o <<": React.FC<">>
        \o (IF o.createTypes THEN pl.name \o <<"Props">> ELSE <<"{}">>)
        \o <<"> = (">> \o propsUsage
        \o <<") => {\n  return (\n    <div ">> \o classNameAttr
        \o <<">\n      <h1>">> \o pl.name
        \o <<"</h1>\n    </div>\n  );\n};\n\nexport default ">> \o pl.name \o <<";\n">>

contextMainContent(pl, o) ==
    LET typesImport == IF o.createTypes
                       THEN <<"import type { ">> \o pl.name \o <<"ContextType, ">>
                            \o pl.name \o <<"State } from './">> \o pl.dirName
                            \o <<".types", "';\n">>
                       ELSE <<>>
        inlineTypes == IF ~o.createTypes
                       THEN <<"export interface ">> \o pl.name
                            \o <<"State {...}\n\nexport interface ">> \o pl.name
                            \o <<"ContextType extends ">> \o pl.name
                            \o <<"State {...}\n\n">>
                       ELSE <<>>
    IN  <<"import React, { createContext, useContext, useState } from 'react';\n">>
        \o typesImport \o <<"\n">> \o inlineTypes
        \o <<"const ">> \o pl.name \o <<"Context = createContext<">> \o pl.name
        \o <<"ContextType | undefined>(undefined);\n", "export const ">>
        \o pl.name \o <<"Provider = ...;\n", "export const use">> \o pl.name
        \o <<" = ...;\n">>

hookMainContent(pl, o) ==
    LET typesImport == IF o.createTypes
                       THEN <<"import type { ">> \o pl.name \o <<"Options, ">>
                            \o pl.name \o <<"Return } from './">> \o pl.name
                            \o <<".types", "';\n">>
                       ELSE <<>>
        propsUsage == IF o.createTypes THEN <<"options: ">> \o pl.name \o <<"Options">>
                      ELSE <<>>
        returnType == IF o.createTypes THEN <<": ">> \o pl.name \o <<"Return">>
                      ELSE <<>>
    IN  <<"import { useState, useEffect } from 'react';\n">> \o typesImport
        \o <<"\nexport const ">> \o pl.name \o <<" = (">> \o propsUsage \o <<")">>
        \o returnType \o <<" => {\n  // TODO: Implement your hook logic here\n};\n\n">>
        \o <<"export default ">> \o pl.name \o <<";\n">>

mainContent(k, pl, o) ==
    CASE k = "component" -> componentMainContent(pl, o)
      [] k = "context" -> contextMainContent(pl, o)
      [] OTHER -> hookMainContent(pl, o)

-----------------------------------------------------------------------------
(* Command line *)

Gen == <<"gen">>

FlagPrefix == <<"-", "-">>

NoTypes == <<"-", "-", "no-types">>

NoCss == <<"-", "-", "no-css">>

NoIndex == <<"-", "-", "no-index">>

NoAll == <<"-", "-", "no-all">>

HelpShort == <<"-", "h">>

HelpLong == <<"-", "-", "help">>

\* args.includes(x)
includes(args, x) == \E i \in DOMAIN args : args[i] = x

\* args[i] of a JavaScript array (0-based): undefined past the end
at(args, i) == IF i + 1 \in DOMAIN args THEN args[i + 1] ELSE Undefined

\* a plausible slip: only a missing name is rejected, not the empty string
falsy_undefinedOnly(x) == x = Undefined

\* !x for a string or undefined
falsy(x) == x = Undefined \/ x = <<>>

isFlag(arg) == startsWith(arg, FlagPrefix)

isPositional(arg) == ~startsWith(arg, FlagPrefix)

\* a plausible slip: --no-all forgets the stylesheet
optionsOf_noAllKeepsCss(flags) ==
    LET noAll == includes(flags, NoAll) IN
    [createTypes |-> ~includes(flags, NoTypes) /\ ~noAll,
     createCss |-> ~includes(flags, NoCss),
     createIndex |-> ~includes(flags, NoIndex) /\ ~noAll]

\* the options object of main
optionsOf(flags) ==
    LET noAll == includes(flags, NoAll) IN
    [createTypes |-> ~includes(flags, NoTypes) /\ ~noAll,
     createCss |-> ~includes(flags, NoCss) /\ ~noAll,
     createIndex |-> ~includes(flags, NoIndex) /\ ~noAll]

NoOptions == [createTypes |-> FALSE, createCss |-> FALSE, createIndex |-> FALSE]

\* what main reads from the argument vector
parse(args) ==
    LET remainingArgs == SubSeq(args, 3, Len(args)) IN
    LET flags == SelectSeq(remainingArgs, isFlag) IN
    LET positionalArgs == SelectSeq(remainingArgs, isPositional) IN
    [command |-> at(args, 0),
     type |-> at(args, 1),
     name |-> at(positionalArgs, 0),
     directory |-> at(positionalArgs, 1),
     options |-> optionsOf(flags)]

wantsHelp(args) == includes(args, HelpShort) \/ includes(args, HelpLong)

GeneratorTypes == {<<"component">>, <<"context">>, <<"hook">>}

\* the case labels of the switch in main
kindOf(type) == type[1]

\* the word each generator uses in its messages
label(k) ==
    CASE k = "component" -> "Component"
      [] k = "context" -> "Context"
      [] OTHER -> "Hook"

-----------------------------------------------------------------------------
(* Console *)

errLine(text) == [stream |-> "stderr", text |-> text]

logLine(text) == [stream |-> "stdout", text |-> text]

HelpText == logLine(<<"recomp - A React/Context/Hook Generator ... Usage: ...">>)

\* path-independent rendering of a path inside a message
RECURSIVE showPath(_)
showPath(p) ==
    IF p = <<>> THEN <<>>
    ELSE IF Len(p) = 1 THEN p[1]
    ELSE p[1] \o <<"/">> \o showPath(Tail(p))

-----------------------------------------------------------------------------
(* Filesystem *)

\* a plausible slip: the check sees files only (as a test by fs.statSync
\* (p).isFile() would), so an existing directory passes it
existsSync_filesOnly(p) == p \in DOMAIN files

\* fs.existsSync(p); the empty path is the working directory
existsSync(p) == p = <<>> \/ p \in dirs \/ p \in DOMAIN files

call(op, p, ok) == [op |-> op, path |-> p, ok |-> ok]

-----------------------------------------------------------------------------
(* Inputs *)

Toggle == <<"t", "o", "g", "g", "l", "e">>

\* names given on the command line; <<>> is the empty string ""
RunNames == {<<>>, Toggle, <<"-">>, UsePrefix, UsePrefix \o Toggle, <<"a", "-", "b">>}

Lib == <<"lib">>

Build == <<"build">>

Widget == <<"widget">>

SkipFlags == {NoTypes, NoCss, NoIndex, NoAll}

flagSeq(F) ==
    (IF NoTypes \in F THEN <<NoTypes>> ELSE <<>>)
    \o (IF NoCss \in F THEN <<NoCss>> ELSE <<>>)
    \o (IF NoIndex \in F THEN <<NoIndex>> ELSE <<>>)
    \o (IF NoAll \in F THEN <<NoAll>> ELSE <<>>)

\* gen <type> <name> [directory] [flags]
WellFormedArgv ==
    {<<Gen, t, n>> \o d \o flagSeq(F) :
        t \in GeneratorTypes, n \in RunNames, d \in {<<>>, <<Lib>>},
        F \in SUBSET SkipFlags}

\* no command, unknown command, missing or unknown type, missing name
DefectiveArgv ==
    {<<>>, <<Build>>, <<Build, <<"component">>, Toggle>>, <<Gen>>,
     <<Gen, Widget>>, <<Gen, Widget, Toggle>>, <<Gen, NoTypes>>,
     <<Gen, NoAll, Toggle>>}
    \cup {<<Gen, t>> \o flagSeq(F) : t \in GeneratorTypes, F \in {{}, {NoAll}}}

HelpArgv ==
    {<<HelpShort>>, <<HelpLong>>, <<Gen, HelpShort>>, <<Build, HelpLong>>}
    \cup {<<Gen, t, Toggle>> \o d \o <<h>> :
            t \in GeneratorTypes, d \in {<<>>, <<Lib>>},
            h \in {HelpShort, HelpLong}}

ArgvSet == WellFormedArgv \cup DefectiveArgv \cup HelpArgv

\* the argument vectors of repeated generation: a component and a hook under
\* two names that all meet in lib/Toggle, with every set of flags; a context;
\* a help request
RerunArgv ==
    {<<Gen, <<"component">>, Toggle, Lib>> \o flagSeq(F) : F \in SUBSET SkipFlags}
    \cup {<<Gen, <<"hook">>, n, Lib>> \o flagSeq(F) :
            n \in {Toggle, UsePrefix \o Toggle}, F \in SUBSET SkipFlags}
    \cup {<<Gen, <<"context">>, Toggle, Lib>> \o flagSeq(F) :
            F \in SUBSET {NoTypes, NoIndex}}
    \cup {<<Gen, <<"hook">>, Toggle, Lib, HelpLong>>}

-----------------------------------------------------------------------------
(* The process *)

exit(code, lines) ==
    /\ pc' = "done"
    /\ exitCode' = code
    /\ out' = out \o lines

\* main() down to the first filesystem call of the generator it enters
Main(args) ==
    LET a == parse(args) IN
    /\ runs' = runs + 1
    /\ argv' = args
    /\ fsops' = <<>>
    /\ UNCHANGED <<dirs, files, faults, nameVars>>
    /\ IF wantsHelp(args)
       THEN /\ pc' = "done"
            /\ exitCode' = 0
            /\ out' = <<HelpText>>
            /\ kind' = "none"
            /\ opts' = NoOptions
            /\ plan' = NoPlan
       ELSE IF a.command # Gen
       THEN /\ pc' = "done"
            /\ exitCode' = 1
            /\ out' = <<IF ~falsy(a.command)
                        THEN errLine(<<"Error: Unknown command '">> \o a.command
                                     \o <<"'.">>)
                        ELSE errLine(<<"Error: No command provided.">>),
                        HelpText>>
            /\ kind' = "none"
            /\ opts' = NoOptions
            /\ plan' = NoPlan
       ELSE IF a.type \notin GeneratorTypes
       THEN /\ pc' = "done"
            /\ exitCode' = 1
            /\ out' = <<errLine(<<"Error: Unknown generator type '">> \o a.type
                                \o <<"'. Use 'component', 'context', or 'hook'.">>),
                        HelpText>>
            /\ kind' = "none"
            /\ opts' = a.options
            /\ plan' = NoPlan
       ELSE /\ kind' = kindOf(a.type)
            /\ opts' = a.options
            /\ IF falsy(a.name)
               THEN /\ pc' = "done"
                    /\ exitCode' = 1
                    /\ out' = <<errLine(<<"Error: ", label(kindOf(a.type)),
                                          " name is required.">>),
                                HelpText>>
                    /\ plan' = NoPlan
               ELSE /\ pc' = "exists"
                    /\ exitCode' = -1
                    /\ out' = <<>>
                    /\ plan' = planOf(kindOf(a.type), a.name,
                                      IF a.directory = Undefined
                                      THEN defaultDir(kindOf(a.type))
                                      ELSE a.directory)

\* one process, over every argument vector of ArgvSet
Start ==
    /\ pc = "idle"
    /\ \E args \in ArgvSet : Main(args)

\* one process after another on the same filesystem
Rerun ==
    /\ pc \in {"idle", "done"}
    /\ runs < MaxRuns
    /\ \E args \in RerunArgv : Main(args)

\* the error line of the existence check
alreadyExists ==
    errLine(<<"Error: ", label(kind), " directory '">> \o showPath(plan.dir)
            \o <<"' already exists.">>)

\* if (fs.existsSync(dir)) { console.error(...); process.exit(1); }
CheckExists ==
    /\ pc = "exists"
    /\ fsops' = Append(fsops, call("existsSync", plan.dir, TRUE))
    /\ IF existsSync(plan.dir)
       THEN exit(1, <<alreadyExists>>)
       ELSE /\ pc' = "mkdir"
            /\ out' = Append(out, logLine(<<"Creating ">> \o plan.name \o <<" in '">>
                                          \o showPath(plan.dir) \o <<"'...">>))
            /\ UNCHANGED exitCode
    /\ UNCHANGED <<dirs, files, argv, kind, opts, plan, runs, faults, nameVars>>

\* a plausible slip: the types block is placed before the stylesheet block
afterStep_typesFirst(k, p) ==
    CASE p = "mkdir" -> "index"
      [] p = "index" -> "types"
      [] p = "types" -> IF k = "component" THEN "css" ELSE "main"
      [] p = "css" -> "main"
      [] OTHER -> "done"

\* the position after the optional block at position p
afterStep(k, p) ==
    CASE p = "mkdir" -> "index"
      [] p = "index" -> IF k = "component" THEN "css" ELSE "types"
      [] p = "css" -> "types"
      [] p = "types" -> "main"
      [] OTHER -> "done"

\* a plausible slip: the exception is caught and logged, and the generator
\* goes on with the next block
threw_swallowed(op, p) ==
    /\ faults < MaxFaults
    /\ faults' = faults + 1
    /\ fsops' = Append(fsops, call(op, p, FALSE))
    /\ out' = Append(out, errLine(<<"Error: ", op>>))
    /\ pc' = IF pc = "main" THEN "done" ELSE afterStep(kind, pc)
    /\ exitCode' = IF pc = "main" THEN 0 ELSE exitCode

\* an uncaught exception of a filesystem call ends the process with code 1
threw(op, p) ==
    /\ faults < MaxFaults
    /\ faults' = faults + 1
    /\ fsops' = Append(fsops, call(op, p, FALSE))
    /\ exit(1, <<errLine(<<"Uncaught Error: ", op>>)>>)

\* fs.mkdirSync(dir, { recursive: true })
Mkdir ==
    /\ pc = "mkdir"
    /\ UNCHANGED <<files, argv, kind, opts, plan, runs, nameVars>>
    /\ \/ /\ \A q \in ancestorsAndSelf(plan.dir) : q \notin DOMAIN files
          /\ dirs' = dirs \cup ancestorsAndSelf(plan.dir)
          /\ fsops' = Append(fsops, call("mkdirSync", plan.dir, TRUE))
          /\ out' = Append(out, logLine(<<"   -> Created directory: ">>
                                        \o showPath(plan.dir)))
          /\ pc' = afterStep(kind, "mkdir")
          /\ UNCHANGED <<exitCode, faults>>
       \/ /\ threw("mkdirSync", plan.dir)
          /\ UNCHANGED dirs

\* fs.writeFileSync(p, content) followed by its progress line; a call that
\* throws leaves the file absent or created empty
writeFileSync(p, content, next) ==
    \/ /\ files' = (p :> content) @@ files
       /\ fsops' = Append(fsops, call("writeFileSync", p, TRUE))
       /\ IF next = "done"
          THEN exit(0, <<logLine(<<"   -> Created file:      ">> \o showPath(p)),
                         logLine(<<label(kind), " '">> \o plan.name
                                 \o <<"' created successfully!">>)>>)
          ELSE /\ pc' = next
               /\ out' = Append(out, logLine(<<"   -> Created file:      ">>
                                             \o showPath(p)))
               /\ UNCHANGED exitCode
       /\ UNCHANGED faults
    \/ /\ threw("writeFileSync", p)
       /\ \/ UNCHANGED files
          \/ /\ p \notin DOMAIN files
             /\ files' = (p :> <<>>) @@ files

skip(next) ==
    /\ pc' = next
    /\ UNCHANGED <<files, fsops, out, exitCode, faults>>

\* if (options.createIndex) { ... }
WriteIndex ==
    /\ pc = "index"
    /\ UNCHANGED <<dirs, argv, kind, opts, plan, runs, nameVars>>
    /\ IF opts.createIndex
       THEN writeFileSync(indexFile(plan), indexContent(kind, plan, opts),
                          afterStep(kind, "index"))
       ELSE skip(afterStep(kind, "index"))

\* if (options.createCss) { ... }, in generateComponent only
WriteCss ==
    /\ pc = "css"
    /\ UNCHANGED <<dirs, argv, kind, opts, plan, runs, nameVars>>
    /\ IF opts.createCss
       THEN writeFileSync(cssFile(plan), cssContent, afterStep(kind, "css"))
       ELSE skip(afterStep(kind, "css"))

\* if (options.createTypes) { ... }
WriteTypes ==
    /\ pc = "types"
    /\ UNCHANGED <<dirs, argv, kind, opts, plan, runs, nameVars>>
    /\ IF opts.createTypes
       THEN writeFileSync(typesFile(plan), typesContent(kind, plan),
                          afterStep(kind, "types"))
       ELSE skip(afterStep(kind, "types"))

\* the main source file and the closing success line
WriteMain ==
    /\ pc = "main"
    /\ UNCHANGED <<dirs, argv, kind, opts, plan, runs, nameVars>>
    /\ writeFileSync(mainFile(plan), mainContent(kind, plan, opts),
                     afterStep(kind, "main"))

\* directories that exist before the process starts
InitDirs ==
    {{}, {<<Lib>>},
     ancestorsAndSelf(<<<<"src">>, <<"components">>, <<"T">> \o Tail(Toggle)>>)}

NoResult == [op |-> "none"]

InitProcess ==
    /\ files = <<>>
    /\ pc = "idle"
    /\ argv = <<>>
    /\ kind = "none"
    /\ opts = NoOptions
    /\ plan = NoPlan
    /\ out = <<>>
    /\ fsops = <<>>
    /\ exitCode = -1
    /\ runs = 0
    /\ faults = 0

Init ==
    /\ InitProcess
    /\ dirs \in InitDirs
    /\ raw = <<>>
    /\ res = NoResult

Steps ==
    \/ CheckExists
    \/ Mkdir
    \/ WriteIndex
    \/ WriteCss
    \/ WriteTypes
    \/ WriteMain

Next ==
    \/ Start
    \/ Steps

Spec == Init /\ [][Next]_vars

InitRerun ==
    /\ InitProcess
    /\ dirs = {}
    /\ raw = <<>>
    /\ res = NoResult

NextRerun ==
    \/ Rerun
    \/ Steps

SpecRerun == InitRerun /\ [][NextRerun]_vars

-----------------------------------------------------------------------------
(* The name layer on its own: kebabToPascalCase and the names of a hook *)

RawAlphabet == {"a", "A", "b", "-"}

FooBar == <<"f", "o", "o", "-", "b", "a", "r">>

FooBarCapitalized == <<"F", "o", "o", "-", "B", "a", "r">>

BoundedStrings == UNION {[1..n -> RawAlphabet] : n \in 0..MaxRawLen}

RawInputs ==
    BoundedStrings
    \cup {UsePrefix \o str : str \in BoundedStrings}
    \cup {Toggle, UsePrefix \o Toggle, FooBar, FooBarCapitalized}

InitNames ==
    /\ InitProcess
    /\ dirs = {}
    /\ raw \in RawInputs
    /\ res = NoResult

\* kebabToPascalCase applied to raw, and to its own result
ToPascal ==
    /\ res = NoResult
    /\ res' = [op |-> "pascal",
               once |-> kebabToPascalCase(raw),
               twice |-> kebabToPascalCase(kebabToPascalCase(raw))]
    /\ UNCHANGED <<raw, genVars>>

\* the names generateHook derives from 'use-' + raw and from raw
DeriveHook ==
    /\ res = NoResult
    /\ raw # <<>>
    /\ res' = [op |-> "hook",
               prefixed |-> hookPlan(UsePrefix \o raw, DefaultHooksDir),
               plain |-> hookPlan(raw, DefaultHooksDir)]
    /\ UNCHANGED <<raw, genVars>>

NextNames ==
    \/ ToPascal
    \/ DeriveHook

SpecNames == InitNames /\ [][NextNames]_vars

-----------------------------------------------------------------------------
(* Claims about the name layer, under SpecNames *)

hasHyphen(str) == \E i \in DOMAIN str : str[i] = Hyphen

isSegmentStart(str, i) == i = 1 \/ str[i - 1] = Hyphen

\* r2 differs from r1 at most in the letter case of first characters of
\* hyphen-delimited segments
differOnlyInInitialCase(r1, r2) ==
    /\ Len(r1) = Len(r2)
    /\ \A i \in DOMAIN r1 :
          \/ r1[i] = r2[i]
          \/ /\ isSegmentStart(r1, i)
             /\ upperChar(r1[i]) = upperChar(r2[i])

\* C7: the PascalName of every RawName has no hyphen, is a fixed point of
\* kebabToPascalCase, and is shared by every RawName that differs from it only
\* in the case of the first character of its segments
C7_PascalNormalizes ==
    res.op = "pascal" =>
        /\ ~hasHyphen(res.once)
        /\ res.twice = res.once
        /\ \A r2 \in RawInputs :
              differOnlyInInitialCase(raw, r2) => kebabToPascalCase(r2) = res.once

\* "foo-bar" has been converted to "FooBar", and "Foo-Bar" is among the inputs
C7_Witness ==
    /\ res.op = "pascal"
    /\ raw = FooBar
    /\ res.once = <<"F", "o", "o", "B", "a", "r">>
    /\ differOnlyInInitialCase(raw, FooBarCapitalized)
    /\ FooBarCapitalized \in RawInputs

hookFileSet(pl) == {indexFile(pl), typesFile(pl), mainFile(pl)}

\* C4 as stated: for every non-empty b, "use-" + b and b derive the same hook
\* name "use" + PascalName(b), the same directory and the same files
C4_Original ==
    res.op = "hook" =>
        /\ res.prefixed.name = Use \o kebabToPascalCase(raw)
        /\ res.plain.name = res.prefixed.name
        /\ res.plain.dir = res.prefixed.dir
        /\ hookFileSet(res.plain) = hookFileSet(res.prefixed)

\* C4 amended: "use-" + b always derives "use" + PascalName(b); b derives the
\* same name, directory and files whenever b does not itself start with "use-"
C4_StripsOnePrefix ==
    res.op = "hook" =>
        /\ res.prefixed.name = Use \o kebabToPascalCase(raw)
        /\ ~startsWith(raw, UsePrefix) =>
              /\ res.plain.name = res.prefixed.name
              /\ res.plain.dir = res.prefixed.dir
              /\ hookFileSet(res.plain) = hookFileSet(res.prefixed)

\* "use-toggle" and "toggle" have both given "useToggle"
C4_Witness ==
    /\ res.op = "hook"
    /\ raw = Toggle
    /\ res.plain.name = <<"u", "s", "e", "T", "o", "g", "g", "l", "e">>
    /\ res.prefixed.name = res.plain.name

-----------------------------------------------------------------------------
(* Reading the state of a process *)

succeeded == pc = "done" /\ exitCode = 0 /\ kind # "none"

\* the paths the current process has created or written, in call order
effects ==
    LET done == SelectSeq(fsops, LAMBDA c : c.ok /\ c.op # "existsSync") IN
    [i \in DOMAIN done |-> done[i].path]

written ==
    {fsops[i].path : i \in {j \in DOMAIN fsops :
                               fsops[j].ok /\ fsops[j].op = "writeFileSync"}}

position(seq, x) == CHOOSE i \in DOMAIN seq : seq[i] = x

isPrefixOf(s1, s2) == Len(s1) <= Len(s2) /\ SubSeq(s2, 1, Len(s1)) = s1

\* the directory given on the command line or the default of the kind
baseDirOf(args) ==
    LET a == parse(args) IN
    pathJoin(<<>>, IF a.directory = Undefined THEN defaultDir(kindOf(a.type))
                   ELSE a.directory)

\* the tokens that open a module specifier in a barrel file
FromTokens ==
    {"export { default } from './", "Styles } from './", "export * from './"}

RECURSIVE untilQuote(_)
untilQuote(content) ==
    IF content = <<>> \/ Head(content) = "';\n" THEN <<>>
    ELSE <<Head(content)>> \o untilQuote(Tail(content))

\* the module specifiers of a barrel file, without the leading './'
RECURSIVE specifiers(_)
specifiers(content) ==
    IF content = <<>> THEN {}
    ELSE IF Head(content) \in FromTokens
         THEN {untilQuote(Tail(content))} \cup specifiers(Tail(content))
         ELSE specifiers(Tail(content))

\* the file of directory d a specifier names: itself, or with .ts or .tsx added
names(d, specifier, f) ==
    \/ f = pathJoin(d, specifier)
    \/ f = pathJoin(d, specifier \o <<".ts">>)
    \/ f = pathJoin(d, specifier \o <<".tsx">>)

-----------------------------------------------------------------------------
(* Claims about one process, under Spec *)

\* C1: index.ts is written if and only if createIndex holds, and a written
\* index.ts references exactly the other files the same run wrote: every
\* specifier names one of them and each of them is named by a specifier
C1_BarrelConsistent ==
    /\ indexFile(plan) \in written => opts.createIndex
    /\ succeeded =>
          /\ indexFile(plan) \in written <=> opts.createIndex
          /\ mainFile(plan) \in written
          /\ cssFile(plan) \in written <=> (kind = "component" /\ opts.createCss)
          /\ typesFile(plan) \in written <=> opts.createTypes
          /\ opts.createIndex =>
                LET refs == specifiers(files[indexFile(plan)])
                    siblings == written \ {indexFile(plan)}
                IN  /\ \A r \in refs : \E f \in siblings : names(plan.dir, r, f)
                    /\ \A f \in siblings : \E r \in refs : names(plan.dir, r, f)
                    /\ Cardinality(refs) = Cardinality(siblings)

\* a component was generated with a stylesheet and a barrel but no types file
C1_Witness ==
    /\ succeeded
    /\ kind = "component"
    /\ opts.createIndex /\ opts.createCss /\ ~opts.createTypes
    /\ Cardinality(specifiers(files[indexFile(plan)])) = 2

AllSkipped == <<NoTypes, NoCss, NoIndex>>

\* the argument vector with --no-all replaced by the three single flags
withoutNoAll(args) ==
    SelectSeq(args, LAMBDA x : x # NoAll) \o AllSkipped

entersGenerator(args) ==
    /\ ~wantsHelp(args)
    /\ Len(args) >= 3
    /\ args[1] = Gen
    /\ args[2] \in GeneratorTypes
    /\ isPositional(args[3])

\* C3: a process given --no-all, with any of the single flags beside it, has
\* the options, names and paths of the process given --no-types --no-css
\* --no-index instead, and on success has created the same paths with the same
\* content: the directory and the main file of the all-skipped options
C3_NoAllIsAllThree ==
    (pc # "idle" /\ entersGenerator(argv) /\ includes(argv, NoAll)) =>
        LET alt == parse(withoutNoAll(argv)) IN
        /\ opts = alt.options
        /\ opts = optionsOf(AllSkipped)
        /\ alt.name = parse(argv).name
        /\ alt.directory = parse(argv).directory
        /\ succeeded =>
              /\ effects = <<plan.dir, mainFile(plan)>>
              /\ DOMAIN files = {mainFile(plan)}
              /\ files[mainFile(plan)] = mainContent(kind, plan, alt.options)

\* a component was generated from --no-index --no-all
C3_Witness ==
    /\ succeeded
    /\ kind = "component"
    /\ includes(argv, NoAll) /\ includes(argv, NoIndex) /\ ~includes(argv, NoCss)
    /\ DOMAIN files = {mainFile(plan)}

\* C5 as stated: the folder of a generated hook is named {Name}Hook, so that
\* 'gen hook use-toggle' creates ./src/hooks/ToggleHook
C5_HookFolderHasSuffix ==
    (succeeded /\ kind = "hook" /\ plan.dirName # <<>>) =>
        /\ plan.dirName[Len(plan.dirName)] = "Hook"
        /\ mainFile(plan) = pathJoin(plan.dir, plan.name \o <<".ts">>)
        /\ argv = <<Gen, <<"hook">>, UsePrefix \o Toggle>> =>
              plan.dir = <<<<"src">>, <<"hooks">>, <<"T">> \o Tail(Toggle) \o <<"Hook">>>>

\* the four usage errors, read off the argument vector: no command, a command
\* other than gen, a missing or unknown type, a missing or empty name
usageError(args) ==
    \/ args = <<>>
    \/ args[1] # Gen
    \/ Len(args) < 2
    \/ args[2] \notin GeneratorTypes
    \/ LET rest == SubSeq(args, 3, Len(args)) IN
       \A i \in DOMAIN rest :
          \/ isFlag(rest[i])
          \/ /\ rest[i] = <<>>
             /\ \A j \in 1..(i - 1) : isFlag(rest[j])

orderInCode(k, pl, o) ==
    <<pl.dir>>
    \o (IF o.createIndex THEN <<indexFile(pl)>> ELSE <<>>)
    \o (IF k = "component" /\ o.createCss THEN <<cssFile(pl)>> ELSE <<>>)
    \o (IF o.createTypes THEN <<typesFile(pl)>> ELSE <<>>)
    \o <<mainFile(pl)>>

\* the order of creation C8 states: type definitions before the stylesheet
orderInClaim(k, pl, o) ==
    <<pl.dir>>
    \o (IF o.createIndex THEN <<indexFile(pl)>> ELSE <<>>)
    \o (IF o.createTypes THEN <<typesFile(pl)>> ELSE <<>>)
    \o (IF k = "component" /\ o.createCss THEN <<cssFile(pl)>> ELSE <<>>)
    \o <<mainFile(pl)>>

\* C8 as stated: the effects of a generation happen in the order directory,
\* index.ts, type definitions, stylesheet, main source file
C8_Original ==
    kind # "none" =>
        /\ isPrefixOf(effects, orderInClaim(kind, plan, opts))
        /\ succeeded => effects = orderInClaim(kind, plan, opts)

\* C8 amended: the effects happen in the order directory, index.ts,
\* stylesheet, type definitions, main source file, the unselected ones
\* skipped; a component with both writes its stylesheet before its types file
C8_CreationOrder ==
    kind # "none" =>
        /\ isPrefixOf(effects, orderInCode(kind, plan, opts))
        /\ succeeded => effects = orderInCode(kind, plan, opts)
        /\ (succeeded /\ kind = "component" /\ opts.createCss /\ opts.createTypes) =>
              position(effects, cssFile(plan)) < position(effects, typesFile(plan))

\* a component with index, stylesheet and types has been generated
C8_Witness ==
    /\ succeeded
    /\ kind = "component"
    /\ Len(effects) = 5
    /\ effects[3] = cssFile(plan)
    /\ effects[4] = typesFile(plan)

\* the content the generator gives the file at path f
contentFor(f) ==
    IF f = indexFile(plan) THEN indexContent(kind, plan, opts)
    ELSE IF f = mainFile(plan) THEN mainContent(kind, plan, opts)
    ELSE IF f = cssFile(plan) /\ kind = "component" THEN cssContent
    ELSE typesContent(kind, plan)

failedWrite(c) == ~c.ok /\ c.op = "writeFileSync"

\* C9: a file write that throws is the last filesystem call of the process,
\* which ends with a non-zero exit code; the artifact directory and every file
\* written before it stay exactly as written, and the main file is not written
C9_NoRollback ==
    \A i \in DOMAIN fsops :
        failedWrite(fsops[i]) =>
            /\ i = Len(fsops)
            /\ pc = "done"
            /\ exitCode # 0
            /\ plan.dir \in dirs
            /\ \A j \in 1..(i - 1) :
                  fsops[j].op = "writeFileSync" =>
                      /\ fsops[j].ok
                      /\ fsops[j].path \in DOMAIN files
                      /\ files[fsops[j].path] = contentFor(fsops[j].path)
            /\ mainFile(plan) \notin written

\* the write of a component's types file threw after index.ts and the
\* stylesheet were written
C9_Witness ==
    /\ kind = "component"
    /\ Len(fsops) = 5
    /\ failedWrite(fsops[5])
    /\ fsops[5].path = typesFile(plan)
    /\ {indexFile(plan), cssFile(plan)} \subseteq DOMAIN files
    /\ mainFile(plan) \notin DOMAIN files

\* C10 as stated: once the name check has passed, the derived folder name is
\* not empty, and every filesystem call is made on, or inside, a proper
\* subdirectory of the base directory
C10_ProperSubdirectory ==
    (kind # "none" /\ plan # NoPlan) =>
        LET base == baseDirOf(argv) IN
        /\ plan.dirName # <<>>
        /\ plan.dir # base
        /\ \A i \in DOMAIN fsops :
              /\ isPrefixOf(base, fsops[i].path)
              /\ Len(fsops[i].path) > Len(base)
              /\ fsops[i].op = "writeFileSync" => Len(fsops[i].path) > Len(base) + 1

-----------------------------------------------------------------------------
(* Claims about repeated generation, under SpecRerun *)

\* The steps C2 allows: a successful generation leaves its artifact directory in place, no
\* directory is ever removed, a starting process changes nothing on disk, and a
\* process whose kind, name and directory resolve to an existing directory ends
\* at its existence check with the 'already exists' error and exit code 1,
\* leaving every directory and file as it was, whatever its flags
C2_Step ==
    /\ dirs \subseteq dirs'
    /\ (pc' = "done" /\ exitCode' = 0 /\ kind' # "none") => plan'.dir \in dirs'
    /\ pc \in {"idle", "done"} => (dirs' = dirs /\ files' = files)
    /\ (pc = "exists" /\ plan.dir \in dirs) =>
          /\ pc' = "done"
          /\ exitCode' = 1
          /\ out' = Append(out, alreadyExists)
          /\ fsops' = <<call("existsSync", plan.dir, TRUE)>>
          /\ dirs' = dirs
          /\ files' = files

\* C2: after a successful generation, a later process that resolves to the
\* same artifact directory fails with 'already exists' and exit code 1 and
\* leaves the filesystem as the first left it: every step is a step of C2_Step
C2_SecondRunRefused == [][C2_Step]_vars

\* after 'gen component toggle lib' succeeded with a stylesheet, a hook
\* generation with --no-all that resolves to lib/Toggle too has been refused
C2_Witness ==
    /\ runs = 2
    /\ pc = "done"
    /\ exitCode = 1
    /\ kind = "hook"
    /\ includes(argv, NoAll)
    /\ fsops = <<call("existsSync", plan.dir, TRUE)>>
    /\ out = <<alreadyExists>>
    /\ pathJoin(plan.dir, plan.dirName \o <<".module.css">>) \in DOMAIN files
    /\ pathJoin(plan.dir, plan.dirName \o <<".tsx">>) \in DOMAIN files
    /\ mainFile(plan) \notin DOMAIN files

====
